---- MODULE Spec2Model ----
(***************************************************************************)
(* Luma Package Registry: the index rebuild (tools/update_index.py) and    *)
(* the manifest validator (tools/validate_manifest.py).                    *)
(*                                                                         *)
(* JSON values are records [t, s]: t is the JSON type as Python's          *)
(* json.load yields it and s the content.  A version string is the         *)
(* sequence of its characters, a package name the sequence of its          *)
(* dot-separated segments, a number the sequence of its digits.            *)
(***************************************************************************)
EXTENDS Integers, Sequences, FiniteSets, TLC

VARIABLES
    manifestsDirExists, \* update_index: registry_path / "manifests" exists
    manifests,          \* update_index: manifests/<dir>/index.json, per directory
    index,              \* update_index: registry_path / "index.json"
    lastResult,         \* update_index: what the last call returned ("none" before any)
    calls,              \* update_index: number of calls made
    manifest,           \* per-manifest step: the manifest document being folded
    summary,            \* per-manifest step: its outcome
    pc,                 \* overlapping invocations: each invocation's position
    local,              \* overlapping invocations: each invocation's in-memory index
    loaded,             \* overlapping invocations: the revision each one read
    seenOrder,          \* overlapping invocations: the iterdir() order each one saw
    overlap,            \* overlapping invocations: a load happened while another ran
    started,            \* overlapping invocations: invocations started so far
    writes,             \* overlapping invocations: writes of index.json so far
    lastWriter,         \* overlapping invocations: who wrote index.json last
    base,               \* overlapping invocations: the revision before the first
    doc,                \* validate_manifest: the document handed in
    verdict             \* validate_manifest: what the call did

vars == <<manifestsDirExists, manifests, index, lastResult, calls,
          manifest, summary, pc, local, loaded, seenOrder, overlap, started,
          writes, lastWriter, base, doc, verdict>>

registryVars == <<manifestsDirExists, manifests, index, lastResult, calls>>
manifestVars == <<manifest, summary>>
raceVars == <<pc, local, loaded, seenOrder, overlap, started, writes, lastWriter, base>>
validateVars == <<doc, verdict>>

-----------------------------------------------------------------------------
(* Bounds of the model *)

MaxVersions == 3      \* longest version list folded by the per-manifest step
MaxCalls == 3         \* update_index calls in one behaviour
MaxRuns == 3          \* invocations started where invocations may overlap

-----------------------------------------------------------------------------
(* JSON values *)

Str(s) == [t |-> "str", s |-> s]
Num(s) == [t |-> "num", s |-> s]
Null == [t |-> "null", s |-> <<>>]
JBool(b) == [t |-> "bool", s |-> IF b THEN <<"true">> ELSE <<"false">>]
JList(s) == [t |-> "list", s |-> s]
JDict(keys) == [t |-> "dict", s |-> keys]
Absent == [t |-> "absent", s |-> <<>>]

\* Python truthiness of a loaded JSON value
Truthy(v) ==
    CASE v.t = "str" -> v.s # <<>>
      [] v.t = "num" -> v.s # <<"0">>
      [] v.t = "bool" -> v.s = <<"true">>
      [] v.t = "list" -> v.s # <<>>
      [] v.t = "dict" -> v.s # <<>>
      [] OTHER -> FALSE

Digits == {"0", "1", "2", "3", "4", "5", "6", "7", "8", "9"}

DigitVal(c) ==
    CASE c = "0" -> 0 [] c = "1" -> 1 [] c = "2" -> 2 [] c = "3" -> 3
      [] c = "4" -> 4 [] c = "5" -> 5 [] c = "6" -> 6 [] c = "7" -> 7
      [] c = "8" -> 8 [] c = "9" -> 9

\* str.split('.')
RECURSIVE Split(_)
Split(s) ==
    IF \A i \in 1..Len(s) : s[i] # "."
    THEN <<s>>
    ELSE LET i == CHOOSE k \in 1..Len(s) :
                      s[k] = "." /\ \A j \in 1..(k - 1) : s[j] # "."
         IN <<SubSeq(s, 1, i - 1)>> \o Split(SubSeq(s, i + 1, Len(s)))

\* str.replace('.', '')
RECURSIVE RemoveDots(_)
RemoveDots(s) ==
    IF s = <<>> THEN <<>>
    ELSE IF Head(s) = "." THEN RemoveDots(Tail(s))
    ELSE <<Head(s)>> \o RemoveDots(Tail(s))

\* str.isdigit()
IsDigit(s) == s # <<>> /\ \A i \in 1..Len(s) : s[i] \in Digits

\* int(p) succeeds: an optional sign, then digits (the strings of this model
\* hold no whitespace and no underscore)
Unsigned(p) == IF p # <<>> /\ p[1] \in {"+", "-"} THEN Tail(p) ELSE p
IntParses(p) == IsDigit(Unsigned(p))

RECURSIVE DigitsValue(_)
DigitsValue(ds) ==
    IF ds = <<>> THEN 0
    ELSE 10 * DigitsValue(SubSeq(ds, 1, Len(ds) - 1)) + DigitVal(ds[Len(ds)])

\* int(p), where it succeeds
IntValue(p) ==
    IF p # <<>> /\ p[1] = "-" THEN 0 - DigitsValue(Unsigned(p))
    ELSE DigitsValue(Unsigned(p))

\* Python's order on tuples of integers
TupleLess(a, b) ==
    \/ /\ Len(a) < Len(b)
       /\ \A i \in 1..Len(a) : a[i] = b[i]
    \/ \E i \in 1..Len(a) :
          /\ i <= Len(b)
          /\ a[i] < b[i]
          /\ \A j \in 1..(i - 1) : a[j] = b[j]

Zero3 == <<0, 0, 0>>

IntTuple(parts) == [i \in 1..Len(parts) |-> IntValue(parts[i])]

-----------------------------------------------------------------------------
(* get_latest_version and the inline sort of update_index *)

\* version_key: any exception gives (0, 0, 0)
version_key(v) ==
    IF v.t # "str" THEN Zero3
    ELSE LET parts == Split(v.s)
         IN IF \A i \in 1..Len(parts) : IntParses(parts[i])
            THEN IntTuple(parts)
            ELSE Zero3

\* the lambda of line 126 raises: AttributeError on a value that is no string,
\* ValueError on a part int() rejects after isdigit() let the string through
InlineKeyRaises(v) ==
    \/ v.t # "str"
    \/ /\ IsDigit(RemoveDots(v.s))
       /\ \E i \in 1..Len(Split(v.s)) : ~IntParses(Split(v.s)[i])

\* the lambda of line 126, where it does not raise
InlineKey(v) ==
    IF IsDigit(RemoveDots(v.s)) THEN IntTuple(Split(v.s)) ELSE Zero3

\* sorted(list, key=..., reverse=True) given the keys: descending and stable
SortedDesc(list, keys) ==
    LET n == Len(list)
        rank(i) == 1 + Cardinality({j \in 1..n :
                        \/ TupleLess(keys[i], keys[j])
                        \/ keys[j] = keys[i] /\ j < i})
    IN [r \in 1..n |-> list[CHOOSE i \in 1..n : rank(i) = r]]

get_latest_version(versions) ==
    IF versions = <<>> THEN Null
    ELSE SortedDesc(versions, [i \in 1..Len(versions) |-> version_key(versions[i])])[1]

InlineSortRaises(versions) == \E i \in 1..Len(versions) : InlineKeyRaises(versions[i])

InlineSorted(versions) ==
    SortedDesc(versions, [i \in 1..Len(versions) |-> InlineKey(versions[i])])

-----------------------------------------------------------------------------
(* update_index: the fold of one manifest (lines 87-141) *)

\* A manifest file: kind is "badjson" (json.load raises JSONDecodeError),
\* "nonobject" (a document that is no dict) or "object"; name is the "name"
\* value (Absent: no such key); versions the "versions" list, versionsIsList
\* FALSE when the key is missing or holds no list.
\* A version entry: shape "dict", "str" (a bare string, held in version) or
\* "other"; version and category are the values of these keys (Absent: no key).
Entry(shape, version, category) ==
    [shape |-> shape, version |-> version, category |-> category]

Manifest(kind, name, isList, versions) ==
    [kind |-> kind, name |-> name, versionsIsList |-> isList, versions |-> versions]

ReservedPrefix == <<"com", "nexel">>

\* package_name.startswith("com.nexel."), the name held as its segments
StartsWithReserved(segs) ==
    Len(segs) >= 3 /\ SubSeq(segs, 1, 2) = ReservedPrefix

\* lines 96-104: the version of every dict entry with a "version" key and every
\* bare string, in stored order
RECURSIVE ExtractVersions(_)
ExtractVersions(entries) ==
    IF entries = <<>> THEN <<>>
    ELSE LET e == Head(entries)
             rest == ExtractVersions(Tail(entries))
         IN IF e.shape = "dict" /\ e.version # Absent THEN <<e.version>> \o rest
            ELSE IF e.shape = "str" THEN <<e.version>> \o rest
            ELSE rest

\* a variant that lets every later category overwrite the earlier one
RECURSIVE ScanCategoryLastWins(_, _)
ScanCategoryLastWins(entries, category) ==
    IF entries = <<>> THEN category
    ELSE LET e == Head(entries)
         IN ScanCategoryLastWins(Tail(entries),
                IF e.shape = "dict" /\ e.version # Absent /\ e.category # Absent
                THEN e.category ELSE category)

\* lines 97-102: category stays None (Null) until a dict entry with a "version"
\* key carries a "category" key
RECURSIVE ScanCategory(_, _)
ScanCategory(entries, category) ==
    IF entries = <<>> THEN category
    ELSE LET e == Head(entries)
         IN ScanCategory(Tail(entries),
                IF /\ e.shape = "dict" /\ e.version # Absent
                   /\ e.category # Absent /\ category = Null
                THEN e.category ELSE category)

\* lines 107-110
RemapCategory(category) ==
    IF category = Str(<<"core">>) THEN Str(<<"registry">>)
    ELSE IF category = Str(<<"third-party">>) THEN Str(<<"assets-store">>)
    ELSE category

\* lines 129-132: everything that is not "registry" lands in assets-store
BucketOf(category) ==
    IF category = Str(<<"registry">>) THEN "registry" ELSE "assets-store"

NoSummary ==
    [outcome |-> "none", name |-> Absent, bucket |-> "", latest |-> Null,
     versions |-> <<>>]

Skipped(outcome, name) ==
    [outcome |-> outcome, name |-> name, bucket |-> "", latest |-> Null,
     versions |-> <<>>]

\* line 123: if latest
HasLatest(versions_list, latest) == Truthy(latest)

\* lines 87-141 for the manifest m of directory dir.  outcome: "listed" (the
\* summary went into bucket), "noversions" (line 136), "badjson" (line 138),
\* "error" (line 140)
ProcessManifest(dir, m) ==
    IF m.kind = "badjson" THEN Skipped("badjson", Absent)
    ELSE IF m.kind # "object" THEN Skipped("error", Absent)
    ELSE
    LET package_name == IF m.name = Absent THEN Str(dir) ELSE m.name
        entries == IF m.versionsIsList THEN m.versions ELSE <<>>
        versions_list == ExtractVersions(entries)
        explicit == RemapCategory(ScanCategory(entries, Null))
        latest == get_latest_version(versions_list)
    IN IF explicit = Null /\ package_name.t # "str"
       THEN Skipped("error", package_name)
       ELSE
       LET category ==
               IF explicit # Null THEN explicit
               ELSE IF StartsWithReserved(package_name.s) THEN Str(<<"registry">>)
               ELSE Str(<<"assets-store">>)
       IN IF ~HasLatest(versions_list, latest)
          THEN Skipped("noversions", package_name)
          ELSE IF InlineSortRaises(versions_list)
          THEN Skipped("error", package_name)
          ELSE IF package_name.t \in {"list", "dict"}
          THEN Skipped("error", package_name)
          ELSE [outcome |-> "listed", name |-> package_name,
                bucket |-> BucketOf(category), latest |-> latest,
                versions |-> InlineSorted(versions_list)]

-----------------------------------------------------------------------------
(* update_index: the index file and the rebuild (lines 29-159) *)

\* The "revision" value: t is "absent" (no key), "int", "bool", "str" or
\* "other" (null, a float, a list, an object); n the number, tok and len the
\* text of a string and its length.
Rev(t, n, tok, len) == [t |-> t, n |-> n, tok |-> tok, len |-> len]
RevAbsent == Rev("absent", 0, "", 0)
RevInt(n) == Rev("int", n, "", 0)
RevBool(b) == Rev("bool", IF b THEN 1 ELSE 0, "", 0)
RevOther == Rev("other", 0, "", 0)

\* hexdigest()[:16]
MarkerLen == 16
RevMarker(h) == Rev("str", 0, h, MarkerLen)

\* sha256 of the current UTC time: one of these, whichever the clock gives
Hashes == {"h1", "h2"}

NoBuckets == [b \in {} |-> {}]
EmptyBuckets == [b \in {"registry", "assets-store"} |-> {}]

\* index.json: kind is "absent", "badjson", "nonobject" or "object"; meta says
\* whether "$schema" and "registry" are there; pkKind is "absent", "notdict" or
\* "dict", and packages maps each bucket to its set of package entries
Index(kind, meta, revision, pkKind, packages) ==
    [kind |-> kind, meta |-> meta, revision |-> revision, pkKind |-> pkKind,
     packages |-> packages]

NoIndex == Index("absent", FALSE, RevAbsent, "absent", NoBuckets)

\* a variant that skips a number
NextRevisionSkips(revision, h) ==
    IF revision.t = "absent" THEN RevInt(1)
    ELSE IF revision.t \in {"int", "bool"} THEN RevInt(revision.n + 2)
    ELSE RevMarker(h)

\* lines 45-54: isinstance(x, int) holds of True and False too
NextRevision(revision, h) ==
    IF revision.t = "absent" THEN RevInt(1)
    ELSE IF revision.t \in {"int", "bool"} THEN RevInt(revision.n + 1)
    ELSE RevMarker(h)

\* lines 41-77: the in-memory index after loading, where loading does not raise
LoadIndex(file, h) ==
    IF file.kind = "absent"
    THEN Index("object", TRUE, RevInt(1), "dict", EmptyBuckets)
    ELSE LET pk == IF file.pkKind = "dict" THEN file.packages ELSE NoBuckets
         IN Index("object", file.meta, NextRevision(file.revision, h), "dict",
                  [b \in DOMAIN pk \cup {"registry", "assets-store"} |->
                      IF b \in DOMAIN pk THEN pk[b] ELSE {}])

\* lines 41-54 raise: json.load on bad text, the revision lines on a document
\* that is no dict
LoadRaises(file) == file.kind \in {"badjson", "nonobject"}

PackageInfo(name, latest, versions) ==
    [name |-> name, latest |-> latest, versions |-> versions]

\* dict[key] = value
Assign(packages, info) == {p \in packages : p.name # info.name} \cup {info}

\* lines 83-141: the two dicts after the directories were visited in this order
RECURSIVE ScanManifests(_, _, _)
ScanManifests(order, files, acc) ==
    IF order = <<>> THEN acc
    ELSE LET dir == Head(order)
             r == ProcessManifest(dir, files[dir])
         IN ScanManifests(Tail(order), files,
                IF files[dir].kind = "missing" \/ r.outcome # "listed" THEN acc
                ELSE [acc EXCEPT ![r.bucket] =
                        Assign(@, PackageInfo(r.name, r.latest, r.versions))])

\* json.dump writes a key that is no string as its text
DumpKey(name) ==
    CASE name.t = "str" -> name
      [] name.t = "num" -> Str(<<name.s[1]>>)
      [] name.t = "null" -> Str(<<"null">>)
      [] name.t = "bool" -> Str(name.s)
      [] OTHER -> name

DumpPackages(packages) ==
    {PackageInfo(DumpKey(p.name), p.latest, p.versions) : p \in packages}

\* lines 144-151: packages replaced wholesale, then the file written
WrittenIndex(mem, scanned) ==
    [mem EXCEPT !.packages =
        [b \in {"registry", "assets-store"} |-> DumpPackages(scanned[b])]]

\* the directories under manifests/, named as packages are
DirUi == <<"com", "nexel", "ui">>
DirLib == <<"org", "lib">>
Dirs == {DirUi, DirLib}

\* iterdir() lists them in either order
Orders == {<<DirUi, DirLib>>, <<DirLib, DirUi>>}

\* one call of update_index, the directories listed in this order and the
\* clock hashing to h
update_index(order, h) ==
    /\ calls < MaxCalls
    /\ calls' = calls + 1
    /\ \/ /\ ~manifestsDirExists
          /\ lastResult' = "False"
          /\ UNCHANGED index
       \/ /\ manifestsDirExists
          /\ LoadRaises(index)
          /\ lastResult' = "raise"
          /\ UNCHANGED index
       \/ /\ manifestsDirExists
          /\ ~LoadRaises(index)
          /\ index' = WrittenIndex(LoadIndex(index, h),
                                   ScanManifests(order, manifests, EmptyBuckets))
          /\ lastResult' = "True"
    /\ UNCHANGED <<manifestsDirExists, manifests, manifestVars, raceVars, validateVars>>

-----------------------------------------------------------------------------
(* Inputs of the per-manifest step *)

V_1_2_0 == Str(<<"1", ".", "2", ".", "0">>)
V_1_10_0 == Str(<<"1", ".", "1", "0", ".", "0">>)
V_1_9_9 == Str(<<"1", ".", "9", ".", "9">>)
V_0_0_0 == Str(<<"0", ".", "0", ".", "0">>)
V_0_5_0 == Str(<<"0", ".", "5", ".", "0">>)
V_beta == Str(<<"1", ".", "0", ".", "0", "-", "b">>)     \* "1.0.0-b"
V_1_0 == Str(<<"1", ".", "0">>)                           \* "1.0"
V_plus2 == Str(<<"+", "2", ".", "0", ".", "0">>)          \* "+2.0.0"
V_empty == Str(<<>>)                                      \* ""
V_1__0 == Str(<<"1", ".", ".", "0">>)                     \* "1..0"
N_5 == Num(<<"5">>)                                       \* 5, not a string

VersionValues ==
    {V_1_2_0, V_1_10_0, V_1_9_9, V_0_0_0, V_0_5_0, V_beta, V_1_0, V_plus2,
     V_empty, V_1__0, N_5}

NameCore == Str(<<"com", "nexel", "core">>)
NameTool == Str(<<"org", "tool">>)

SeqsUpTo(S, n) == UNION {[1..k -> S] : k \in 0..n}

\* a string as a bare entry, any other value as {"version": value}
EntryFor(v) ==
    IF v.t = "str" THEN Entry("str", v, Absent) ELSE Entry("dict", v, Absent)

\* version values of every kind, in every order
VersionListManifests ==
    {Manifest("object", NameTool, TRUE, [i \in DOMAIN vs |-> EntryFor(vs[i])]) :
        vs \in SeqsUpTo(VersionValues, MaxVersions)}

CategoryValues ==
    {Absent, Null, Str(<<"core">>), Str(<<"third-party">>), Str(<<"registry">>),
     Str(<<"misc">>)}

CategoryEntries ==
    {Entry("dict", V_1_2_0, c) : c \in CategoryValues}
        \cup {Entry("str", V_1_9_9, Absent),
              Entry("dict", Absent, Str(<<"core">>)),
              Entry("other", Absent, Absent)}

\* entries with and without categories, under reserved and foreign names
CategoryManifests ==
    {Manifest("object", n, TRUE, es) :
        n \in {NameCore, NameTool, Absent, N_5},
        es \in SeqsUpTo(CategoryEntries, MaxVersions)}

BrokenManifests ==
    {Manifest("badjson", Absent, FALSE, <<>>),
     Manifest("nonobject", Absent, FALSE, <<>>),
     Manifest("object", NameTool, FALSE, <<>>)}

ManifestInputs ==
    {[dir |-> d, doc |-> m] :
        d \in Dirs,
        m \in VersionListManifests \cup CategoryManifests \cup BrokenManifests}

RegistryIdle ==
    /\ manifestsDirExists = FALSE
    /\ manifests = [d \in Dirs |-> Manifest("badjson", Absent, FALSE, <<>>)]
    /\ index = <<>>
    /\ lastResult = "none"
    /\ calls = 0

ManifestIdle == manifest = <<>> /\ summary = NoSummary

RaceIdle ==
    /\ pc = <<>>
    /\ local = <<>>
    /\ loaded = <<>>
    /\ seenOrder = <<>>
    /\ overlap = FALSE
    /\ started = 0
    /\ writes = 0
    /\ lastWriter = 0
    /\ base = 0

ValidateIdle == doc = <<>> /\ verdict = <<>>

InitManifest ==
    /\ manifest \in ManifestInputs
    /\ summary = NoSummary
    /\ RegistryIdle /\ RaceIdle /\ ValidateIdle

\* one pass of the loop body of lines 83-141 over the manifest at hand
FoldManifest ==
    /\ summary.outcome = "none"
    /\ summary' = ProcessManifest(manifest.dir, manifest.doc)
    /\ UNCHANGED <<manifest, registryVars, raceVars, validateVars>>

NextManifest == FoldManifest

SpecManifest == InitManifest /\ [][NextManifest]_vars

-----------------------------------------------------------------------------
(* Claims about the per-manifest step (SpecManifest) *)

\* a numeric MAJOR.MINOR.PATCH triplet
WellFormedVersion(v) ==
    /\ v.t = "str"
    /\ Len(Split(v.s)) = 3
    /\ \A i \in 1..3 : IsDigit(Split(v.s)[i])

\* numeric component-wise SemVer order, every other value below every triplet
SemVerBelow(a, b) ==
    IF WellFormedVersion(a) /\ WellFormedVersion(b)
    THEN TupleLess(IntTuple(Split(a.s)), IntTuple(Split(b.s)))
    ELSE ~WellFormedVersion(a) /\ WellFormedVersion(b)

InputVersions == ExtractVersions(manifest.doc.versions)

\* C4: for every non-empty extracted version list, latest is the maximum and
\* versions the whole list sorted descending under numeric SemVer order, with
\* every string that is no numeric triplet below every well-formed version (it
\* comes after all of them and is latest only when there is none).
C4_SemVerOrder ==
    summary.outcome = "listed" =>
        /\ \E i \in 1..Len(InputVersions) : InputVersions[i] = summary.latest
        /\ \A i \in 1..Len(InputVersions) : ~SemVerBelow(summary.latest, InputVersions[i])
        /\ Len(summary.versions) = Len(InputVersions)
        /\ \A v \in VersionValues :
              Cardinality({i \in 1..Len(InputVersions) : InputVersions[i] = v})
                  = Cardinality({i \in 1..Len(summary.versions) : summary.versions[i] = v})
        /\ \A i, j \in 1..Len(summary.versions) :
              i < j => ~SemVerBelow(summary.versions[i], summary.versions[j])

\* C10: in every package summary written, latest is the first element of
\* versions: the key of get_latest_version and the inline key order every list
\* of version strings the same way.
C10_LatestIsFirst ==
    summary.outcome = "listed" => summary.latest = summary.versions[1]

\* an entry that supplies a version as a mapping and carries a category value
CarriesCategory(e) ==
    e.shape = "dict" /\ e.version # Absent /\ e.category \notin {Absent, Null}

LegacyLabel(c) ==
    CASE c = Str(<<"core">>) -> "registry"
      [] c = Str(<<"third-party">>) -> "assets-store"
      [] c = Str(<<"registry">>) -> "registry"
      [] OTHER -> "assets-store"

NameBucket(name) ==
    IF name.t = "str" /\ Len(name.s) >= 3 /\ name.s[1] = "com" /\ name.s[2] = "nexel"
    THEN "registry" ELSE "assets-store"

ResolvedBucket(dir, m) ==
    LET es == m.versions
        carriers == {i \in 1..Len(es) : CarriesCategory(es[i])}
    IN IF carriers # {}
       THEN LegacyLabel(es[CHOOSE i \in carriers : \A j \in carriers : i <= j].category)
       ELSE NameBucket(IF m.name = Absent THEN Str(dir) ELSE m.name)

-----------------------------------------------------------------------------
(* The registry: manifests on disk, index.json, and rebuilds of it (Spec) *)

MissingManifest == Manifest("missing", Absent, FALSE, <<>>)

StringEntries(vs) == [i \in DOMAIN vs |-> Entry("str", vs[i], Absent)]

\* what a directory under manifests/ may hold
RegistryManifests ==
    {MissingManifest,
     Manifest("badjson", Absent, FALSE, <<>>),
     Manifest("nonobject", Absent, FALSE, <<>>),
     Manifest("object", NameCore, TRUE,
              <<Entry("dict", V_1_2_0, Absent), Entry("dict", V_1_10_0, Absent)>>),
     Manifest("object", NameCore, TRUE,
              <<Entry("dict", V_1_9_9, Str(<<"third-party">>))>>),
     Manifest("object", NameTool, TRUE, StringEntries(<<V_0_5_0, V_1_9_9>>)),
     Manifest("object", NameTool, TRUE, StringEntries(<<V_1_2_0>>)),
     Manifest("object", NameTool, FALSE, <<>>),
     Manifest("object", Absent, TRUE, StringEntries(<<V_1_2_0, V_1_10_0>>)),
     Manifest("object", Absent, TRUE, StringEntries(<<V_empty>>)),
     Manifest("object", Absent, TRUE, <<Entry("dict", N_5, Absent)>>),
     Manifest("object", N_5, TRUE, <<Entry("dict", V_1_2_0, Str(<<"core">>))>>),
     Manifest("object", N_5, TRUE, StringEntries(<<V_1_2_0>>))}

NameGone == Str(<<"org", "gone">>)

\* a prior index with a legacy bucket, a package no manifest backs and no
\* assets-store bucket
StaleBuckets ==
    [b \in {"core", "registry"} |->
        IF b = "core" THEN {PackageInfo(NameTool, V_0_5_0, <<V_0_5_0>>)}
        ELSE {PackageInfo(NameGone, V_1_2_0, <<V_1_2_0>>)}]

IndexFiles ==
    {NoIndex,
     Index("badjson", FALSE, RevAbsent, "absent", NoBuckets),
     Index("nonobject", FALSE, RevAbsent, "absent", NoBuckets)}
        \cup {Index("object", TRUE, r, "dict", StaleBuckets) :
                r \in {RevAbsent, RevInt(41), Rev("str", 0, "abc123", 6),
                       RevBool(TRUE), RevOther}}
        \cup {Index("object", FALSE, RevInt(0), "absent", NoBuckets),
              Index("object", FALSE, RevInt(41), "notdict", NoBuckets),
              Index("object", TRUE, RevInt(41), "dict", EmptyBuckets)}

Init ==
    /\ manifestsDirExists \in BOOLEAN
    /\ manifests \in [Dirs -> RegistryManifests]
    /\ ~manifestsDirExists => \A d \in Dirs : manifests[d] = MissingManifest
    /\ index \in IndexFiles
    /\ lastResult = "none"
    /\ calls = 0
    /\ ManifestIdle /\ RaceIdle /\ ValidateIdle

Next == \E order \in Orders, h \in Hashes : update_index(order, h)

Spec == Init /\ [][Next]_vars

-----------------------------------------------------------------------------
(* Claims about the rebuild (Spec) *)

\* this step is a call of update_index that returned True
RebuildStep == calls' = calls + 1 /\ lastResult' = "True"

\* the package name a directory's manifest gives, as a key of the written index
WrittenName(d) ==
    DumpKey(IF manifests[d].kind = "object" /\ manifests[d].name # Absent
            THEN manifests[d].name ELSE Str(d))

Contribution(d) == ProcessManifest(d, manifests[d])

Contributes(d) ==
    manifests[d].kind # "missing" /\ Contribution(d).outcome = "listed"

\* no two manifests put the same package name into the same bucket
NoCollision ==
    \A d1, d2 \in Dirs :
        (d1 # d2 /\ Contributes(d1) /\ Contributes(d2)) =>
            \/ Contribution(d1).bucket # Contribution(d2).bucket
            \/ WrittenName(d1) # WrittenName(d2)

\* C1 as stated: a second rebuild over unchanged manifests, the first having
\* left an integer revision r, leaves the same packages for every directory
\* order of either run, and revision r + 1.
C1_RebuildTwiceSame ==
    [][(RebuildStep /\ lastResult = "True" /\ index.revision.t = "int") =>
          /\ index'.packages = index.packages
          /\ index'.revision = RevInt(index.revision.n + 1)]_vars

\* C1 as amended: the same, for manifests no two of which contribute the same
\* package name to the same bucket; the revision advances by one in any case.
C1_RebuildTwiceSameUnlessCollision ==
    [][(RebuildStep /\ lastResult = "True" /\ index.revision.t = "int") =>
          /\ NoCollision => index'.packages = index.packages
          /\ index'.revision = RevInt(index.revision.n + 1)]_vars

\* two rebuilds ran over two contributing manifests, from revision 41
C1_Witness ==
    /\ calls = 2
    /\ lastResult = "True"
    /\ index.revision = RevInt(43)
    /\ NoCollision
    /\ \A d \in Dirs : Contributes(d)
    /\ index.packages["registry"] # {}
    /\ index.packages["assets-store"] # {}

\* C2: across successful calls the revision follows its rule: no index gives 1,
\* an integer r gives r + 1, and a revision that is present and no integer
\* gives a fresh 16-character string, never an integer.
C2_RevisionRule ==
    [][RebuildStep =>
          CASE index.kind = "absent" -> index'.revision = RevInt(1)
            [] index.revision.t = "absent" -> TRUE
            [] index.revision.t = "int" ->
                   index'.revision = RevInt(index.revision.n + 1)
            [] OTHER ->
                   /\ index'.revision.t = "str"
                   /\ index'.revision.len = 16
                   /\ index'.revision.tok \in Hashes]_vars

\* the manifests C3 calls unusable: invalid JSON, a document that is no object,
\* a name that is no string, a version value that is no string
Unusable(m) ==
    \/ m.kind \in {"badjson", "nonobject"}
    \/ /\ m.kind = "object"
       /\ \/ m.name \notin {Absent} /\ m.name.t # "str"
          \/ \E i \in 1..Len(ExtractVersions(m.versions)) :
                ExtractVersions(m.versions)[i].t # "str"

\* a well-formed manifest with at least one version
WellFormedManifest(m) ==
    /\ m.kind = "object"
    /\ m.name = Absent \/ m.name.t = "str"
    /\ m.versionsIsList
    /\ ExtractVersions(m.versions) # <<>>
    /\ \A i \in 1..Len(ExtractVersions(m.versions)) :
          WellFormedVersion(ExtractVersions(m.versions)[i])

Listed(name) ==
    \E b \in DOMAIN index.packages : \E p \in index.packages[b] : p.name = name

\* C3: with the manifests directory there (and an index that loads), the call
\* returns True however many manifests are unusable; the written index holds
\* every package of a well-formed manifest, with a summary a well-formed
\* manifest of that name yields, and no package of an unusable manifest.
C3_BadManifestsSkipped ==
    (lastResult # "none" /\ manifestsDirExists /\ index.kind \notin {"badjson", "nonobject"}) =>
        /\ lastResult = "True"
        /\ \A d \in Dirs :
              WellFormedManifest(manifests[d]) =>
                  \E p \in index.packages[Contribution(d).bucket] :
                      /\ p.name = WrittenName(d)
                      /\ \E e \in Dirs :
                            /\ WellFormedManifest(manifests[e])
                            /\ WrittenName(e) = p.name
                            /\ p.latest = Contribution(e).latest
                            /\ p.versions = Contribution(e).versions
        /\ \A d \in Dirs :
              Unusable(manifests[d]) =>
                  \/ ~Listed(WrittenName(d))
                  \/ \E e \in Dirs :
                        ~Unusable(manifests[e]) /\ WrittenName(e) = WrittenName(d)

\* C8: after every successful call packages holds exactly the buckets registry
\* and assets-store, and a package is listed if and only if a manifest read
\* without error in this rebuild yielded a non-empty version list for it,
\* whatever the prior index held.
C8_IndexReflectsScan ==
    lastResult = "True" =>
        /\ index.pkKind = "dict"
        /\ DOMAIN index.packages = {"registry", "assets-store"}
        /\ \A d \in Dirs :
              Listed(WrittenName(d)) <=>
                  \E e \in Dirs :
                      /\ WrittenName(e) = WrittenName(d)
                      /\ manifests[e].kind = "object"
                      /\ Contribution(e).outcome # "error"
                      /\ ExtractVersions(manifests[e].versions) # <<>>
        /\ \A b \in DOMAIN index.packages : \A p \in index.packages[b] :
              \E d \in Dirs : WrittenName(d) = p.name

-----------------------------------------------------------------------------
(* Invocations of update_index that may overlap on one root (SpecRace) *)

Procs == {1, 2}

RevNone == Rev("none", 0, "", 0)

RaceManifests ==
    {[d \in Dirs |-> IF d = DirUi
                     THEN Manifest("object", NameTool, TRUE, StringEntries(<<V_0_5_0, V_1_9_9>>))
                     ELSE Manifest("object", NameTool, TRUE, StringEntries(<<V_1_2_0>>))],
     [d \in Dirs |-> IF d = DirUi
                     THEN Manifest("object", NameCore, TRUE,
                                   <<Entry("dict", V_1_2_0, Absent), Entry("dict", V_1_10_0, Absent)>>)
                     ELSE Manifest("object", NameTool, TRUE, StringEntries(<<V_1_2_0>>))],
     [d \in Dirs |-> IF d = DirUi
                     THEN Manifest("badjson", Absent, FALSE, <<>>)
                     ELSE Manifest("object", Absent, TRUE, StringEntries(<<V_1_2_0, V_1_10_0>>))]}

InitRace ==
    /\ manifestsDirExists = TRUE
    /\ manifests \in RaceManifests
    /\ \E r \in {0, 41} :
          /\ index \in {Index("object", TRUE, RevInt(r), "dict", StaleBuckets),
                        Index("object", FALSE, RevInt(r), "absent", NoBuckets)}
          /\ base = r
    /\ lastResult = "none"
    /\ calls = 0
    /\ pc = [p \in Procs |-> "idle"]
    /\ local = [p \in Procs |-> NoIndex]
    /\ loaded = [p \in Procs |-> RevNone]
    /\ seenOrder = [p \in Procs |-> <<>>]
    /\ overlap = FALSE
    /\ started = 0
    /\ writes = 0
    /\ lastWriter = 0
    /\ ManifestIdle /\ ValidateIdle

\* a variant that takes the revision from the file again as it writes
WriteFileRereading(p) ==
    [local[p] EXCEPT !.revision = NextRevision(index.revision, "h1")]

\* lines 150-151: the in-memory index goes to the file as it is
WriteFile(p) == local[p]

\* lines 36-77: invocation p reads index.json and bumps the revision in memory
Load(p, h) ==
    /\ pc[p] = "idle"
    /\ started < MaxRuns
    /\ ~LoadRaises(index)
    /\ started' = started + 1
    /\ local' = [local EXCEPT ![p] = LoadIndex(index, h)]
    /\ loaded' = [loaded EXCEPT ![p] = index.revision]
    /\ overlap' = (overlap \/ \E q \in Procs \ {p} : pc[q] \in {"loaded", "scanned"})
    /\ pc' = [pc EXCEPT ![p] = "loaded"]
    /\ UNCHANGED <<seenOrder, writes, lastWriter, base, registryVars, manifestVars, validateVars>>

\* lines 79-147: invocation p folds the manifests into its in-memory index
Scan(p, o) ==
    /\ pc[p] = "loaded"
    /\ local' = [local EXCEPT ![p] =
                    WrittenIndex(local[p], ScanManifests(o, manifests, EmptyBuckets))]
    /\ seenOrder' = [seenOrder EXCEPT ![p] = o]
    /\ pc' = [pc EXCEPT ![p] = "scanned"]
    /\ UNCHANGED <<loaded, overlap, started, writes, lastWriter, base, registryVars,
                   manifestVars, validateVars>>

\* lines 149-159: invocation p overwrites index.json and returns
Write(p) ==
    /\ pc[p] = "scanned"
    /\ index' = WriteFile(p)
    /\ writes' = writes + 1
    /\ lastWriter' = p
    /\ pc' = [pc EXCEPT ![p] = "idle"]
    /\ UNCHANGED <<local, loaded, seenOrder, overlap, started, base, manifestsDirExists,
                   manifests, lastResult, calls, manifestVars, validateVars>>

NextRace ==
    \E p \in Procs :
        \/ \E h \in Hashes : Load(p, h)
        \/ \E o \in Orders : Scan(p, o)
        \/ Write(p)

SpecRace == InitRace /\ [][NextRace]_vars

\* C9: index.json is read, changed and written with no lock.  Serialized
\* rebuilds from integer revision r leave r + n after n of them; two
\* invocations that both load the file before either writes it both write
\* r + 1, so one increment is lost; and the file's packages are those of the
\* invocation that wrote last.
C9_LostUpdate ==
    /\ ~overlap => index.revision = RevInt(base + writes)
    /\ \A p, q \in Procs :
          (/\ p # q
           /\ pc[p] = "idle" /\ pc[q] = "idle"
           /\ loaded[p] # RevNone /\ loaded[p] = loaded[q]) =>
              /\ index.revision = RevInt(loaded[p].n + 1)
              /\ index.revision.n < base + writes
    /\ (writes > 0 /\ pc[lastWriter] # "scanned") =>
          index.packages =
              WrittenIndex(NoIndex, ScanManifests(seenOrder[lastWriter], manifests,
                                                  EmptyBuckets)).packages

\* both invocations loaded revision 41, both wrote 42, and the one that wrote
\* last saw the directories in another order than the other
C9_Witness ==
    /\ overlap
    /\ writes = 2
    /\ base = 41
    /\ \A p \in Procs : pc[p] = "idle" /\ loaded[p] = RevInt(41)
    /\ index.revision = RevInt(42)
    /\ seenOrder[1] # seenOrder[2]
    /\ index.packages # WrittenIndex(NoIndex, ScanManifests(seenOrder[3 - lastWriter],
                                         manifests, EmptyBuckets)).packages

-----------------------------------------------------------------------------
(* validate_manifest.py (SpecValidate) *)

\* An error string: code and field say which message, at and of are the
\* "Version {i} ({version})" prefix of a per-version error (at = -1: none).
Err(code, field) == [at |-> -1, of |-> Absent, code |-> code, field |-> field]

\* a version entry as validate_version reads it: the values of its keys
VEntry(shape, version, shasum, url, published, engineVersion) ==
    [shape |-> shape, version |-> version, shasum |-> shasum, url |-> url,
     published |-> published, engineVersion |-> engineVersion]

\* REQUIRED_VERSION_FIELDS, in dict order; every one of them wants a str
REQUIRED_VERSION_FIELDS == <<"version", "shasum", "url", "published">>

\* lines 37-41
RECURSIVE RequiredFieldErrors(_, _)
RequiredFieldErrors(version, fields) ==
    IF fields = <<>> THEN <<>>
    ELSE LET f == Head(fields)
             here == IF version[f] = Absent THEN <<Err("missing", f)>>
                     ELSE IF version[f].t # "str" THEN <<Err("type", f)>>
                     ELSE <<>>
         IN here \o RequiredFieldErrors(version, Tail(fields))

\* version.get(key, "")
GetOrEmpty(v) == IF v = Absent THEN Str(<<>>) ELSE v

\* len(x) raises TypeError
HasNoLen(v) == v.t \in {"num", "bool", "null"}

Http == <<"h", "t", "t", "p">>

\* str.startswith("http")
StartsWithHttp(s) == Len(s) >= 4 /\ SubSeq(s, 1, 4) = Http

\* validate_version raises: .split on a truthy version that is no string, len()
\* of a truthy shasum that has none, .startswith on a truthy url that is no
\* string
ValidateVersionRaises(version) ==
    \/ Truthy(GetOrEmpty(version.version)) /\ version.version.t # "str"
    \/ Truthy(GetOrEmpty(version.shasum)) /\ HasNoLen(version.shasum)
    \/ Truthy(GetOrEmpty(version.url)) /\ version.url.t # "str"

\* lines 44-54
VersionFormatErrors(version) ==
    LET version_str == GetOrEmpty(version.version)
        parts == Split(version_str.s)
    IN IF ~Truthy(version_str) THEN <<>>
       ELSE IF Len(parts) # 3 THEN <<Err("format", "version")>>
       ELSE IF \E i \in 1..3 : ~IntParses(parts[i]) THEN <<Err("numeric", "version")>>
       ELSE <<>>

\* lines 57-59
ShasumErrors(version) ==
    LET shasum == GetOrEmpty(version.shasum)
    IN IF Truthy(shasum) /\ Len(shasum.s) # 64 THEN <<Err("sha256", "shasum")>> ELSE <<>>

\* lines 62-64
UrlErrors(version) ==
    LET url == GetOrEmpty(version.url)
    IN IF Truthy(url) /\ ~StartsWithHttp(url.s) THEN <<Err("url", "url")>> ELSE <<>>

\* lines 67-75: only a truthy value is looked at, and only an object is checked
EngineVersionErrors(version) ==
    LET engine_version == version.engineVersion
    IN IF engine_version = Absent \/ ~Truthy(engine_version) THEN <<>>
       ELSE IF engine_version.t = "str" THEN <<>>
       ELSE IF engine_version.t = "dict"
       THEN IF \A i \in 1..Len(engine_version.s) : engine_version.s[i] \notin {"min", "max"}
            THEN <<Err("engineVersion", "engineVersion")>>
            ELSE <<>>
       ELSE <<>>

\* validate_version, where it returns
validate_version(version) ==
    RequiredFieldErrors(version, REQUIRED_VERSION_FIELDS)
        \o VersionFormatErrors(version)
        \o ShasumErrors(version)
        \o UrlErrors(version)
        \o EngineVersionErrors(version)

\* A document: kind is "missing" (no such file), "badjson" or "value" (parsed).
\* top is the type of the parsed value; for a list or a string, has says which
\* of "name" and "versions" the value contains (as an element, as a substring).
\* For an object, name is the "name" value, versionsKind "absent", "list" or
\* "other", versions the entries.
Doc(kind, top, has, name, versionsKind, versions) ==
    [kind |-> kind, top |-> top, has |-> has, name |-> name,
     versionsKind |-> versionsKind, versions |-> versions]

\* `field in manifest` raises TypeError on a number, a boolean, null
MembershipRaises(d) == d.top \in {"num", "bool", "null"}

FieldIn(d, field) ==
    IF d.top = "dict"
    THEN IF field = "name" THEN d.name # Absent ELSE d.versionsKind # "absent"
    ELSE field \in d.has

\* manifest[field] raises TypeError on a list or a string
SubscriptRaises(d) ==
    d.top \in {"list", "str"} /\ (FieldIn(d, "name") \/ FieldIn(d, "versions"))

\* lines 95-99
TopLevelErrors(d) ==
    (IF ~FieldIn(d, "name") THEN <<Err("missing", "name")>>
     ELSE IF d.name.t # "str" THEN <<Err("type", "name")>>
     ELSE <<>>)
    \o (IF ~FieldIn(d, "versions") THEN <<Err("missing", "versions")>>
        ELSE IF d.versionsKind # "list" THEN <<Err("type", "versions")>>
        ELSE <<>>)

\* line 113: the prefix
Prefixed(i, version, errors) ==
    [k \in 1..Len(errors) |->
        [errors[k] EXCEPT !.at = i,
                          !.of = IF version.version = Absent
                                 THEN Str(<<"unknown">>) ELSE version.version]]

\* lines 107-113, entries i.. of the list
RECURSIVE VersionListErrors(_, _)
VersionListErrors(entries, i) ==
    IF i > Len(entries) THEN <<>>
    ELSE (IF entries[i].shape # "dict"
          THEN <<[Err("notobject", "versions") EXCEPT !.at = i - 1]>>
          ELSE Prefixed(i - 1, entries[i], validate_version(entries[i])))
         \o VersionListErrors(entries, i + 1)

\* lines 102-113
VersionsErrors(d) ==
    IF ~FieldIn(d, "versions") THEN <<>>
    ELSE IF d.versionsKind # "list" THEN <<Err("notarray", "versions")>>
    ELSE VersionListErrors(d.versions, 1)

NoVerdict == [outcome |-> "none", valid |-> FALSE, errors |-> <<>>]
Returned(errors) == [outcome |-> "returned", valid |-> errors = <<>>, errors |-> errors]
Raised == [outcome |-> "raised", valid |-> FALSE, errors |-> <<>>]

\* validate_manifest(manifest_path)
validate_manifest(d) ==
    IF d.kind = "missing" THEN [Returned(<<Err("notfound", "")>>) EXCEPT !.valid = FALSE]
    ELSE IF d.kind = "badjson" THEN [Returned(<<Err("badjson", "")>>) EXCEPT !.valid = FALSE]
    ELSE IF MembershipRaises(d) \/ SubscriptRaises(d) THEN Raised
    ELSE IF /\ d.top = "dict" /\ d.versionsKind = "list"
            /\ \E i \in 1..Len(d.versions) :
                  d.versions[i].shape = "dict" /\ ValidateVersionRaises(d.versions[i])
    THEN Raised
    ELSE Returned(TopLevelErrors(d) \o VersionsErrors(d))

-----------------------------------------------------------------------------
(* Inputs of validate_manifest *)

Num0 == Num(<<"0">>)
Sha64 == Str([i \in 1..64 |-> "a"])
ShaShort == Str(<<"a", "b">>)
UrlHttp == Str(<<"h", "t", "t", "p", "s", ":", "/", "/", "x">>)
UrlFtp == Str(<<"f", "t", "p", ":", "/", "/", "x">>)
Published == Str(<<"2", "0", "2", "5">>)

EngineVersionValues ==
    {Absent, Str(<<">", "=", "1">>), V_empty, JDict(<<"min">>), JDict(<<"max">>),
     JDict(<<"min", "max">>), JDict(<<"other">>), JDict(<<>>), N_5, Num0,
     JList(<<"x">>), JBool(TRUE)}

ValidateEntries ==
    {VEntry("dict", v, sh, u, pb, ev) :
        v \in {Absent, V_1_2_0, V_1_0, V_beta, V_empty, N_5, Num0},
        sh \in {Absent, Sha64, ShaShort, N_5},
        u \in {Absent, UrlHttp, UrlFtp, N_5},
        pb \in {Absent, Published, N_5},
        ev \in EngineVersionValues}

GoodEntry == VEntry("dict", V_1_2_0, Sha64, UrlHttp, Published, Absent)
NotAnObject == VEntry("other", Absent, Absent, Absent, Absent, Absent)

PairEntries ==
    {GoodEntry, NotAnObject,
     VEntry("dict", V_1_0, ShaShort, UrlFtp, Absent, JDict(<<"other">>)),
     VEntry("dict", Absent, Sha64, UrlHttp, Published, N_5)}

ValidateDocs ==
    {Doc("missing", "none", {}, Absent, "absent", <<>>),
     Doc("badjson", "none", {}, Absent, "absent", <<>>)}
        \cup {Doc("value", t, {}, Absent, "absent", <<>>) : t \in {"num", "bool", "null"}}
        \cup {Doc("value", t, h, Absent, "absent", <<>>) :
                t \in {"list", "str"}, h \in SUBSET {"name", "versions"}}
        \cup {Doc("value", "dict", {}, n, k, <<>>) :
                n \in {Absent, NameTool, N_5}, k \in {"absent", "other"}}
        \cup {Doc("value", "dict", {}, n, "list", es) :
                n \in {Absent, NameTool, N_5},
                es \in {<<>>} \cup {<<e>> : e \in ValidateEntries}
                        \cup {<<e1, e2>> : e1 \in PairEntries, e2 \in PairEntries}}

InitValidate ==
    /\ doc \in ValidateDocs
    /\ verdict = NoVerdict
    /\ RegistryIdle /\ ManifestIdle /\ RaceIdle

\* one call of validate_manifest on the document at hand
Validate ==
    /\ verdict.outcome = "none"
    /\ verdict' = validate_manifest(doc)
    /\ UNCHANGED <<doc, registryVars, manifestVars, raceVars>>

NextValidate == Validate

SpecValidate == InitValidate /\ [][NextValidate]_vars

\* C5: validate_manifest never raises on a file that exists and parses as JSON,
\* whatever the document (a top level that is no object, a version, shasum or
\* url that is no string): it returns (valid, errors) with the defects in errors.
C5_NeverRaises ==
    (verdict.outcome # "none" /\ doc.kind = "value") =>
        /\ verdict.outcome = "returned"
        /\ verdict.valid <=> verdict.errors = <<>>

EngineVersionReported(i) ==
    \E k \in 1..Len(verdict.errors) :
        verdict.errors[k].at = i - 1 /\ verdict.errors[k].code = "engineVersion"

EngineVersionAcceptable(ev) ==
    \/ ev.t = "str"
    \/ ev.t = "dict" /\ \E k \in 1..Len(ev.s) : ev.s[k] \in {"min", "max"}

\* C6: for every version entry with an engineVersion field, no engineVersion
\* error is reported when the value is a string or an object containing min or
\* max, and one is reported for every other value: an object with neither
\* (the empty object too) and anything that is neither string nor object.
C6_EngineVersionShape ==
    (verdict.outcome = "returned" /\ doc.kind = "value" /\ doc.top = "dict"
        /\ doc.versionsKind = "list") =>
        \A i \in 1..Len(doc.versions) :
            (doc.versions[i].shape = "dict" /\ doc.versions[i].engineVersion # Absent) =>
                (EngineVersionReported(i) <=>
                    ~EngineVersionAcceptable(doc.versions[i].engineVersion))

====
